---- MODULE Spec2Model ----
(***************************************************************************)
(* A model of the LSD.law admission wave notifier (scraper.py, config.py). *)
(* One run of main() is a process that scrapes and decodes the page,       *)
(* filters the rows to the watch-list, loads state.json, diffs, notifies   *)
(* and overwrites state.json.  The runs follow each other (cron); the only *)
(* state that survives a run is the file.                                  *)
(*                                                                         *)
(* Strings the program lower-cases or concatenates (school_name, result,   *)
(* date, the key) are sequences of one-character strings, so that lower()  *)
(* and the f-string of make_key are computed.  A dict is a function; a     *)
(* missing key is a name outside its DOMAIN.                               *)
(*                                                                         *)
(* Not modelled: the texts printed, last_check and summary (both are fixed *)
(* before the diff and only written to the file, never read back).         *)
(***************************************************************************)
EXTENDS Integers, Sequences, FiniteSets, TLC

VARIABLES
    pc,            \* where the current run of main() stands
    stateFile,     \* state.json: [kind, decisions]
    filtered,      \* main's local `filtered`
    changes,       \* main's local `changes`
    message,       \* the message handed to send_notification in this run
    notify,        \* "none" | "sent" | "failed": the send of this run
    fault,         \* the failure this run met: "none" | "page_load" | "decode" | "store" | "notification"
    exit_status,   \* -1 while running, else the process's exit status
    steps,         \* the components this run has called, in order
    fileAtStart,   \* history: state.json as it was when this run started
    prevOk,        \* history: the run right before this one ended with a save
    repeat,        \* history: this run saw the rows the run right before it saw and saved
    seen,          \* history: per key, the counts the successful runs observed
    scenario,      \* history: progress through the three-run scenario
    unsent,        \* history: the send of the run right before this one failed and, once this run has scraped, it saw the same rows
    ledger,        \* history: per key, the deltas of the events emitted for it
    call,          \* a component called on its own: [fn, arg]
    ret            \* what that call returned

vars == <<pc, stateFile, filtered, changes, message, notify, fault, exit_status,
          steps, fileAtStart, prevOk, repeat, seen, scenario, unsent, ledger,
          call, ret>>

\* ---------------------------------------------------------------- bounds

\* rows in one page load
MaxRows == 2
\* largest count a row carries
MaxCount == 2

\* ---------------------------------------------------------------- config.py

\* config.SCHOOLS, each name abbreviated to its initials
SCHOOLS == { <<"U", "C", "B">>, <<"G", "U">>, <<"G", "W", "U">>,
             <<"U", "C", "L", "A">>, <<"U", "C", "I">> }

POLL_SCHOOLS_ONLY == TRUE

\* ---------------------------------------------------------------- helpers

\* d.get(f, dflt)
Get(d, f, dflt) == IF f \in DOMAIN d THEN d[f] ELSE dflt

UpperCase == <<"A", "B", "C", "G", "H", "I", "L", "U", "W">>
LowerCase == <<"a", "b", "c", "g", "h", "i", "l", "u", "w">>

\* str.lower() on one character
LowerChar(c) ==
    IF \E i \in DOMAIN UpperCase : UpperCase[i] = c
    THEN LowerCase[CHOOSE i \in DOMAIN UpperCase : UpperCase[i] = c]
    ELSE c

\* str.lower()
Lower(s) == [i \in DOMAIN s |-> LowerChar(s[i])]

\* the empty dict
EmptyDict == <<>>

\* d[k] = v on a dict (the later write wins)
DictSet(d, k, v) == [x \in DOMAIN d \cup {k} |-> IF x = k THEN v ELSE d[x]]

\* ---------------------------------------------------------------- state persistence

\* What state.json can hold before the first run: no file, an empty (or
\* whitespace) file, or text that is not JSON.
NoFile == [kind |-> "absent", decisions |-> EmptyDict]
EmptyFile == [kind |-> "empty", decisions |-> EmptyDict]
CorruptFile == [kind |-> "corrupt", decisions |-> EmptyDict]

\* state.json as save_state writes it
ValidFile(decs) == [kind |-> "valid", decisions |-> decs]

\* state.json holding "{}", as save_state writes a dict without keys
BareFile == [kind |-> "bare", decisions |-> EmptyDict]

\* mutant: load_state that takes an unparseable file for no state
load_state_lenient(file) ==
    IF file.kind = "valid" THEN [ok |-> TRUE, state |-> [decisions |-> file.decisions]]
    ELSE [ok |-> TRUE, state |-> EmptyDict]

\* load_state(): json.loads raises on text that is not JSON
load_state(file) ==
    IF file.kind = "valid" THEN [ok |-> TRUE, state |-> [decisions |-> file.decisions]]
    ELSE IF file.kind = "corrupt" THEN [ok |-> FALSE, state |-> EmptyDict]
    ELSE [ok |-> TRUE, state |-> EmptyDict]

\* mutant: save_state that writes a dict without keys
save_state_bare(state) == BareFile

\* save_state(state)
save_state(state) ==
    IF "decisions" \in DOMAIN state THEN ValidFile(state.decisions) ELSE BareFile

\* ---------------------------------------------------------------- decoding

\* JSON values, as json.loads returns them
JList(items) == [t |-> "list", items |-> items]
JDict(d) == [t |-> "dict", d |-> d]
JTrue == [t |-> "true"]
JNumber == [t |-> "number"]
\* a string holding base64 text: b64 is "ok", "stray" (characters outside
\* the alphabet, which b64decode discards) or "badpad" (wrong padding);
\* zok: the bytes are a zlib stream; jok: the stream's text is JSON for v
JBlob(b64, zok, jok, v) == [t |-> "blob", b64 |-> b64, zok |-> zok, jok |-> jok, v |-> v]

\* the hidden input's value: '' or a text that is JSON for v (or is not JSON)
RawEmpty == [t |-> "empty"]
RawText(jok, v) == [t |-> "text", jok |-> jok, v |-> v]

\* bool(x) of a JSON value
Truthy(v) ==
    CASE v.t = "true" -> TRUE
      [] v.t = "list" -> v.items # <<>>
      [] v.t = "dict" -> DOMAIN v.d # {}
      [] OTHER -> TRUE

IsDict(v) == v.t = "dict"
IsList(v) == v.t = "list"

\* outer.get("compressed") is truthy
MarkedCompressed(v) == "compressed" \in DOMAIN v.d /\ Truthy(v.d["compressed"])

\* dict(zip(schema, row)): the pairs up to the shorter length, a repeated
\* column keeps its last value
Zip(schema, row) ==
    LET n == IF Len(schema) < Len(row) THEN Len(schema) ELSE Len(row)
        last(f) == CHOOSE i \in 1..n : schema[i] = f /\ \A j \in 1..n : schema[j] = f => j <= i
    IN  [f \in {schema[i] : i \in 1..n} |-> row[last(f)]]

\* mutant: the rows come out last first
RowsToRecords_reversed(schema, rows) ==
    [i \in DOMAIN rows |-> Zip(schema, rows[Len(rows) + 1 - i])]

\* line 166: [dict(zip(schema, row)) for row in rows]
RowsToRecords(schema, rows) == [i \in DOMAIN rows |-> Zip(schema, rows[i])]

Raise == [ok |-> FALSE, val |-> <<>>]
Return(val) == [ok |-> TRUE, val |-> val]

\* lines 162-172: the resolved payload to records
PayloadRecords(payload) ==
    IF IsDict(payload) /\ "schema" \in DOMAIN payload.d /\ "data" \in DOMAIN payload.d
    THEN LET schema == payload.d["schema"]
             rows == payload.d["data"]
         IN  \* line 166: `for row in rows` and zip(schema, row) raise
             \* TypeError on a number (of the values that are not lists
             \* only numbers are among the inputs here)
             IF ~IsList(rows) THEN Raise
             ELSE IF rows.items = <<>> THEN Return(<<>>)
             ELSE IF ~IsList(schema) THEN Raise
             ELSE Return(RowsToRecords(schema.items, rows.items))
    ELSE IF IsList(payload) THEN Return(payload.items)
    ELSE Return(<<>>)

\* lines 155-158: base64.b64decode, zlib.decompress, json.loads
Inflate(blob) ==
    IF blob.t # "blob" THEN Raise
    ELSE IF blob.b64 = "badpad" THEN Raise
    ELSE IF ~blob.zok THEN Raise
    ELSE IF ~blob.jok THEN Raise
    ELSE Return(blob.v)

\* _decompress_grid_data(raw_json)
decompress_grid_data(raw) ==
    IF raw.t = "empty" THEN Return(<<>>)
    ELSE IF ~raw.jok THEN Raise
    ELSE LET outer == raw.v IN
    IF IsList(outer) THEN Return(outer.items)
    ELSE IF ~IsDict(outer) \/ ~MarkedCompressed(outer) THEN Return(<<>>)
    ELSE LET inner == Get(outer.d, "data", JDict(EmptyDict)) IN
    IF IsDict(inner) /\ MarkedCompressed(inner)
    THEN IF "data" \notin DOMAIN inner.d THEN Raise
         ELSE LET payload == Inflate(inner.d["data"])
              IN  IF payload.ok THEN PayloadRecords(payload.val) ELSE Raise
    ELSE PayloadRecords(inner)

\* ---------------------------------------------------------------- filtering

\* mutant: every row passes, watched or not
filter_decisions_all(decisions) == decisions

\* mutant: the names are compared as they are spelled
FilterWith_exact(decisions, poll, schools) ==
    IF ~poll THEN decisions
    ELSE LET keep(d) == Get(d, "school_name", <<>>) \in schools
         IN  SelectSeq(decisions, keep)

\* the body of filter_decisions, for given values of config.POLL_SCHOOLS_ONLY
\* and config.SCHOOLS
FilterWith(decisions, poll, schools) ==
    IF ~poll THEN decisions
    ELSE LET watched == {Lower(name) : name \in schools}
             keep(d) == Lower(Get(d, "school_name", <<>>)) \in watched
         IN  SelectSeq(decisions, keep)

\* filter_decisions(decisions)
filter_decisions(decisions) == FilterWith(decisions, POLL_SCHOOLS_ONLY, SCHOOLS)

\* ---------------------------------------------------------------- diffing

\* make_key(d)
make_key(d) ==
    Get(d, "school_name", <<>>) \o <<"|">> \o Get(d, "result", <<>>)
        \o <<"|">> \o Get(d, "date", <<>>)

\* int(d.get("count", 0))
CountOf(d) == Get(d, "count", 0)

\* the default "Unknown"
Unknown == <<"U", "n", "k", "n", "o", "w", "n">>

\* the dict appended for a new wave (lines 217-224)
NewEvent(d) ==
    [school_name |-> Get(d, "school_name", Unknown), result |-> Get(d, "result", Unknown),
     date |-> Get(d, "date", <<>>), count |-> CountOf(d), delta |-> CountOf(d),
     is_new |-> TRUE]

\* mutant: the grown wave's delta is its whole count
UpdateEvent_total(d, prev_count) ==
    [school_name |-> Get(d, "school_name", Unknown), result |-> Get(d, "result", Unknown),
     date |-> Get(d, "date", <<>>), count |-> CountOf(d),
     delta |-> CountOf(d), is_new |-> FALSE]

\* the dict appended for a grown wave (lines 229-236)
UpdateEvent(d, prev_count) ==
    [school_name |-> Get(d, "school_name", Unknown), result |-> Get(d, "result", Unknown),
     date |-> Get(d, "date", <<>>), count |-> CountOf(d),
     delta |-> CountOf(d) - prev_count, is_new |-> FALSE]

\* mutant: an unchanged count is reported too (>= for >)
DiffRow_ge(d, prev_decisions, acc) ==
    LET key == make_key(d) IN
    IF key \notin DOMAIN prev_decisions
    THEN Append(acc, NewEvent(d))
    ELSE LET prev_count == CountOf(prev_decisions[key]) IN
         IF CountOf(d) >= prev_count
         THEN Append(acc, UpdateEvent(d, prev_count))
         ELSE acc

\* mutant: a row is compared with the event an earlier row of its key gave
DiffRow_running(d, prev_decisions, acc) ==
    LET key == make_key(d)
        earlier == {j \in DOMAIN acc : make_key(acc[j]) = key}
    IN  IF earlier # {}
        THEN LET last == acc[CHOOSE j \in earlier : \A x \in earlier : x <= j].count
             IN  IF CountOf(d) > last THEN Append(acc, UpdateEvent(d, last)) ELSE acc
        ELSE IF key \notin DOMAIN prev_decisions
        THEN Append(acc, NewEvent(d))
        ELSE LET prev_count == CountOf(prev_decisions[key]) IN
             IF CountOf(d) > prev_count
             THEN Append(acc, UpdateEvent(d, prev_count))
             ELSE acc

\* one turn of the loop of diff_decisions
DiffRow(d, prev_decisions, acc) ==
    LET key == make_key(d) IN
    IF key \notin DOMAIN prev_decisions
    THEN Append(acc, NewEvent(d))
    ELSE LET prev_count == CountOf(prev_decisions[key]) IN
         IF CountOf(d) > prev_count
         THEN Append(acc, UpdateEvent(d, prev_count))
         ELSE acc

RECURSIVE DiffLoop(_, _, _)
DiffLoop(current, prev_decisions, n) ==
    IF n = 0 THEN <<>>
    ELSE DiffRow(current[n], prev_decisions, DiffLoop(current, prev_decisions, n - 1))

\* diff_decisions(current, prev_decisions)
diff_decisions(current, prev_decisions) ==
    DiffLoop(current, prev_decisions, Len(current))

\* ---------------------------------------------------------------- notifications

\* one line of build_message: the f-string's parts in order
MessageLine(c) ==
    IF c.is_new
    THEN <<c.school_name, ": ", c.count, " ", c.result, " (", c.date, ")">>
    ELSE <<c.school_name, ": +", c.delta, " ", c.result, " (now ", c.count, ", ", c.date, ")">>

\* build_message(changes): the lines that "\n".join joins
build_message(chs) == [i \in DOMAIN chs |-> MessageLine(chs[i])]

\* ---------------------------------------------------------------- main, step 5

\* the dict main stores for a row (lines 324-329)
Snapshot(d) ==
    [school_name |-> Get(d, "school_name", <<>>), result |-> Get(d, "result", <<>>),
     date |-> Get(d, "date", <<>>), count |-> CountOf(d)]

\* the loop of lines 321-329 over the first n rows
RECURSIVE SnapshotLoop(_, _)
SnapshotLoop(rows, n) ==
    IF n = 0 THEN EmptyDict
    ELSE DictSet(SnapshotLoop(rows, n - 1), make_key(rows[n]), Snapshot(rows[n]))

\* mutant: an entry already on file is kept (setdefault for assignment)
new_decisions_keepold(rows) ==
    LET fresh == SnapshotLoop(rows, Len(rows))
    IN  [k \in DOMAIN fresh |->
            IF k \in DOMAIN stateFile.decisions THEN stateFile.decisions[k] ELSE fresh[k]]

\* mutant: the rows are merged into the mapping on file
new_decisions_merge(rows) ==
    LET fresh == SnapshotLoop(rows, Len(rows))
    IN  [k \in DOMAIN fresh \cup DOMAIN stateFile.decisions |->
            IF k \in DOMAIN fresh THEN fresh[k] ELSE stateFile.decisions[k]]

\* mutant: a key with several rows keeps the largest of their counts
new_decisions_max(rows) ==
    LET fresh == SnapshotLoop(rows, Len(rows))
        most(k) == CHOOSE c \in {CountOf(rows[i]) : i \in DOMAIN rows} :
                      /\ \E i \in DOMAIN rows : make_key(rows[i]) = k /\ CountOf(rows[i]) = c
                      /\ \A i \in DOMAIN rows : make_key(rows[i]) = k => CountOf(rows[i]) <= c
    IN  [k \in DOMAIN fresh |-> [fresh[k] EXCEPT !.count = most(k)]]

\* new_decisions of main
new_decisions(rows) == SnapshotLoop(rows, Len(rows))

\* ---------------------------------------------------------------- the page

\* the schools the page shows: a watched one as config spells it, one that
\* is not watched, and the watched one in lower case
PageSchools == { <<"G", "U">>, <<"H", "U">> }
LowerCaseSchool == <<"g", "u">>

PageRow(name, count) ==
    [school_name |-> name, result |-> <<"A">>, date |-> <<"1">>, count |-> count]

\* a row of the watched school without a count, and a row without a school
NoCountRow == [school_name |-> <<"G", "U">>, result |-> <<"A">>, date |-> <<"1">>]
NoSchoolRow == [result |-> <<"A">>, date |-> <<"1">>, count |-> 1]

PageRows ==
    {PageRow(name, count) : name \in PageSchools, count \in 0..MaxCount}
        \cup {PageRow(LowerCaseSchool, 1), NoCountRow, NoSchoolRow}

PageLists == UNION {[1..n -> PageRows] : n \in 0..MaxRows}

\* the grid's column names and a record as a positional row
Schema == <<"count", "school_name", "result", "date">>
RowArray(d) == <<d.count, d.school_name, d.result, d.date>>

Grid(recs) ==
    JDict([schema |-> JList(Schema),
           data |-> JList([i \in DOMAIN recs |-> RowArray(recs[i])])])

\* the envelopes of the docstring of _decompress_grid_data
Single(payload) == JDict([compressed |-> JTrue, data |-> payload])
Double(blob) == Single(JDict([compressed |-> JTrue, data |-> blob]))

\* the values the hidden input can carry for the rows recs: a list of
\* dicts, bare or in an envelope, and, for rows with every column, the grid
\* in a single and in a double envelope
RawsOf(recs) ==
    { RawText(TRUE, JList(recs)), RawText(TRUE, Single(JList(recs))) } \cup
    IF \A i \in DOMAIN recs : DOMAIN recs[i] = {Schema[j] : j \in DOMAIN Schema}
    THEN { RawText(TRUE, Single(Grid(recs))),
           RawText(TRUE, Double(JBlob("ok", TRUE, TRUE, Grid(recs)))),
           RawText(TRUE, Double(JBlob("stray", TRUE, TRUE, Grid(recs)))) }
    ELSE {}

\* values of an unknown shape
OddRaws ==
    { RawEmpty,
      RawText(TRUE, JNumber),
      RawText(TRUE, JDict([data |-> JList(<<>>)])),
      RawText(TRUE, Single(JNumber)),
      RawText(TRUE, Single(JDict([schema |-> JList(Schema), data |-> JNumber]))) }

\* values that are corrupt at some layer
CorruptRaws ==
    { RawText(FALSE, JNumber),
      RawText(TRUE, Double(JBlob("badpad", TRUE, TRUE, Grid(<<>>)))),
      RawText(TRUE, Double(JBlob("ok", FALSE, TRUE, Grid(<<>>)))),
      RawText(TRUE, Double(JBlob("ok", TRUE, FALSE, Grid(<<>>)))),
      RawText(TRUE, Double(JNumber)),
      RawText(TRUE, Single(JDict([compressed |-> JTrue]))) }

RawSet == (UNION {RawsOf(recs) : recs \in PageLists}) \cup OddRaws \cup CorruptRaws

\* what _decompress_grid_data makes of the values the page can carry
DecodeOutcomes == {decompress_grid_data(raw) : raw \in RawSet}

\* main's `filtered` (line 300) for the values that decode
FilteredOutcomes == {filter_decisions(r.val) : r \in {x \in DecodeOutcomes : x.ok}}

\* ---------------------------------------------------------------- history

\* the counts seen for a key so far: the largest, and whether each count
\* was at least the ones before it
ObserveRow(s, d) ==
    LET k == make_key(d)
        c == CountOf(d)
    IN  IF k \notin DOMAIN s THEN DictSet(s, k, [max |-> c, mono |-> TRUE])
        ELSE DictSet(s, k, [max |-> IF c > s[k].max THEN c ELSE s[k].max,
                            mono |-> s[k].mono /\ c >= s[k].max])

RECURSIVE Observe(_, _, _)
Observe(s, rows, n) ==
    IF n = 0 THEN s ELSE ObserveRow(Observe(s, rows, n - 1), rows[n])

HasNoDecisions(file) == file.kind # "corrupt" /\ DOMAIN file.decisions = {}

\* the stage of the three-run scenario a run that sees `rows` is at, and the
\* count c of its first run: 1 a single row with a positive count on empty
\* state, 2 the same row again right after stage 1, 3 the same key with a
\* larger count right after stage 2, otherwise 0
ScenarioStage(rows) ==
    IF scenario.stage = 1 /\ prevOk /\ rows = filtered
    THEN [stage |-> 2, c |-> scenario.c]
    ELSE IF /\ scenario.stage = 2 /\ prevOk /\ Len(rows) = 1
            /\ make_key(rows[1]) = make_key(filtered[1])
            /\ CountOf(rows[1]) > scenario.c
    THEN [stage |-> 3, c |-> scenario.c]
    ELSE IF HasNoDecisions(stateFile) /\ Len(rows) = 1 /\ CountOf(rows[1]) > 0
    THEN [stage |-> 1, c |-> CountOf(rows[1])]
    ELSE [stage |-> 0, c |-> 0]

\* the deltas of the events of `chs` that carry key k
RECURSIVE SumDeltas(_, _, _)
SumDeltas(chs, k, n) ==
    IF n = 0 THEN 0
    ELSE SumDeltas(chs, k, n - 1) + (IF make_key(chs[n]) = k THEN chs[n].delta ELSE 0)

\* the ledger after this run: per key, the sum of the deltas of its events
\* for as long as the key is `clean`: one row in every saved run since its
\* first, with counts that never decreased.  The sum of a key that is not
\* clean is no longer kept.
Tally ==
    [k \in DOMAIN ledger \cup {make_key(filtered[i]) : i \in DOMAIN filtered} |->
        LET mine == {i \in DOMAIN filtered : make_key(filtered[i]) = k}
            first == k \notin DOMAIN ledger
            clean == /\ Cardinality(mine) = 1
                     /\ first \/ (/\ ledger[k].clean
                                  /\ \A i \in mine : CountOf(filtered[i]) >= seen[k].max)
        IN  [clean |-> clean,
             sum |-> IF clean
                     THEN (IF first THEN 0 ELSE ledger[k].sum)
                              + SumDeltas(changes, k, Len(changes))
                     ELSE 0]]

\* no component is called on its own while main runs
NoCall == [fn |-> "none"]

\* ---------------------------------------------------------------- main

Init ==
    /\ pc = "idle"
    /\ stateFile \in {NoFile, EmptyFile, CorruptFile}
    /\ filtered = <<>>
    /\ changes = <<>>
    /\ message = <<>>
    /\ notify = "none"
    /\ fault = "none"
    /\ exit_status = -1
    /\ steps = <<>>
    /\ fileAtStart = stateFile
    /\ prevOk = FALSE
    /\ repeat = FALSE
    /\ seen = EmptyDict
    /\ scenario = [stage |-> 0, c |-> 0]
    /\ unsent = FALSE
    /\ ledger = EmptyDict
    /\ call = NoCall
    /\ ret = NoCall

\* a run starts when the run before it has ended
Startable == pc \in {"done", "exit1", "crashed"}

\* the next process starts (lines 284-286): nothing is carried over but the
\* file.  `filtered` keeps the rows of the run before until the scrape, for
\* the history variables to compare with.
BeginRun ==
    /\ Startable
    /\ pc' = "idle"
    /\ fileAtStart' = stateFile
    /\ prevOk' = (pc = "done")
    /\ repeat' = FALSE
    /\ unsent' = (pc = "done" /\ notify = "failed")
    /\ changes' = <<>>
    /\ message' = <<>>
    /\ notify' = "none"
    /\ fault' = "none"
    /\ exit_status' = -1
    /\ steps' = <<>>
    /\ UNCHANGED <<stateFile, filtered, seen, scenario, ledger, call, ret>>

\* what the scrape leaves alone
ScrapeFrame ==
    UNCHANGED <<stateFile, changes, message, notify, fileAtStart, prevOk, seen,
                ledger, call, ret>>

\* lines 291-293: except Exception -> sys.exit(1)
ScrapeAbort(why, done) ==
    /\ pc = "idle"
    /\ ScrapeFrame
    /\ pc' = "exit1"
    /\ fault' = why
    /\ exit_status' = 1
    /\ steps' = done
    /\ filtered' = <<>>
    /\ repeat' = FALSE
    /\ unsent' = FALSE
    /\ scenario' = [stage |-> 0, c |-> 0]

\* scrape_decisions raises in Playwright (launch, goto, evaluate)
PageLoadFails == ScrapeAbort("page_load", <<"page_load">>)

\* mutant: a decode failure is taken for an empty grid and the run goes on
DecodeFails_swallowed ==
    /\ \E r \in DecodeOutcomes : ~r.ok
    /\ pc = "idle"
    /\ ScrapeFrame
    /\ filtered' = <<>>
    /\ repeat' = FALSE
    /\ unsent' = FALSE
    /\ scenario' = [stage |-> 0, c |-> 0]
    /\ pc' = "filtered"
    /\ fault' = "decode"
    /\ exit_status' = -1
    /\ steps' = <<"page_load", "decode", "filter">>

\* scrape_decisions raises in _decompress_grid_data
DecodeFails ==
    /\ \E r \in DecodeOutcomes : ~r.ok
    /\ ScrapeAbort("decode", <<"page_load", "decode">>)

\* lines 288-301: the page is loaded, decoded and filtered
Scrape ==
    \E rows \in FilteredOutcomes :
        /\ pc = "idle"
        /\ ScrapeFrame
        /\ filtered' = rows
        /\ repeat' = (prevOk /\ rows = filtered)
        /\ unsent' = (unsent /\ rows = filtered)
        /\ scenario' = ScenarioStage(rows)
        /\ pc' = "filtered"
        /\ fault' = "none"
        /\ exit_status' = -1
        /\ steps' = <<"page_load", "decode", "filter">>

\* line 304: load_state raises and nothing catches it
LoadFails ==
    /\ pc = "filtered"
    /\ ~load_state(stateFile).ok
    /\ pc' = "crashed"
    /\ fault' = "store"
    /\ exit_status' = 1
    /\ steps' = Append(steps, "load")
    /\ UNCHANGED <<stateFile, filtered, changes, message, notify, fileAtStart,
                   prevOk, repeat, seen, scenario, unsent, ledger, call, ret>>

\* lines 304-306
LoadAndDiff ==
    /\ pc = "filtered"
    /\ load_state(stateFile).ok
    /\ LET state == load_state(stateFile).state
           prev_decisions == Get(state, "decisions", EmptyDict)
       IN  changes' = diff_decisions(filtered, prev_decisions)
    /\ pc' = "diffed"
    /\ steps' = steps \o <<"load", "diff">>
    /\ UNCHANGED <<stateFile, filtered, message, notify, fault, exit_status,
                   fileAtStart, prevOk, repeat, seen, scenario, unsent, ledger, call, ret>>

\* lines 309-314: the send succeeds
NotifySent ==
    /\ pc = "diffed"
    /\ changes # <<>>
    /\ message' = build_message(changes)
    /\ notify' = "sent"
    /\ pc' = "notified"
    /\ steps' = Append(steps, "notify")
    /\ UNCHANGED <<stateFile, filtered, changes, fault, exit_status, fileAtStart,
                   prevOk, repeat, seen, scenario, unsent, ledger, call, ret>>

\* mutant: the failed send ends the run
NotifyFails_fatal ==
    /\ pc = "diffed"
    /\ changes # <<>>
    /\ message' = build_message(changes)
    /\ notify' = "failed"
    /\ fault' = "notification"
    /\ pc' = "exit1"
    /\ exit_status' = 1
    /\ steps' = Append(steps, "notify")
    /\ UNCHANGED <<stateFile, filtered, changes, fileAtStart,
                   prevOk, repeat, seen, scenario, unsent, ledger, call, ret>>

\* lines 309-316: requests.post or raise_for_status raises, main reports it
NotifyFails ==
    /\ pc = "diffed"
    /\ changes # <<>>
    /\ message' = build_message(changes)
    /\ notify' = "failed"
    /\ fault' = "notification"
    /\ pc' = "notified"
    /\ steps' = Append(steps, "notify")
    /\ UNCHANGED <<stateFile, filtered, changes, exit_status, fileAtStart,
                   prevOk, repeat, seen, scenario, unsent, ledger, call, ret>>

\* mutant: the send does not depend on the diff
NoNotify_sends ==
    /\ pc = "diffed"
    /\ changes = <<>>
    /\ message' = build_message(changes)
    /\ notify' = "sent"
    /\ pc' = "notified"
    /\ steps' = Append(steps, "notify")
    /\ UNCHANGED <<stateFile, filtered, changes, fault, exit_status, fileAtStart,
                   prevOk, repeat, seen, scenario, unsent, ledger, call, ret>>

\* lines 317-318
NoNotify ==
    /\ pc = "diffed"
    /\ changes = <<>>
    /\ pc' = "notified"
    /\ UNCHANGED <<stateFile, filtered, changes, message, notify, fault, exit_status,
                   steps, fileAtStart, prevOk, repeat, seen, scenario, unsent, ledger, call, ret>>

\* lines 320-336
Save ==
    /\ pc = "notified"
    /\ stateFile' = save_state([decisions |-> new_decisions(filtered)])
    /\ seen' = Observe(seen, filtered, Len(filtered))
    /\ ledger' = Tally
    /\ pc' = "done"
    /\ exit_status' = 0
    /\ steps' = Append(steps, "save")
    /\ UNCHANGED <<filtered, changes, message, notify, fault, fileAtStart,
                   prevOk, repeat, scenario, unsent, call, ret>>

Next ==
    \/ BeginRun
    \/ PageLoadFails
    \/ DecodeFails
    \/ Scrape
    \/ LoadFails
    \/ LoadAndDiff
    \/ NotifySent
    \/ NotifyFails
    \/ NoNotify
    \/ Save

Spec == Init /\ [][Next]_vars

\* ---------------------------------------------------------------- the functions alone

\* school names for filter_decisions: the watched one in three spellings,
\* one that is not watched, and a longer and a shorter one
UnitNames ==
    { <<"G", "U">>, <<"g", "u">>, <<"G", "u">>, <<"H", "U">>, <<"G", "U", "L">>, <<"G">> }

UnitRecords ==
    {[school_name |-> n, count |-> 1] : n \in UnitNames} \cup {[count |-> 1]}

UnitRecordLists == UNION {[1..n -> UnitRecords] : n \in 0..MaxRows}

\* values of config.SCHOOLS
WatchLists ==
    { SCHOOLS, { <<"g", "u">> }, { <<"G", "U", "L">>, <<"H", "U">> }, {} }

\* positional rows: the page's, one shorter and one longer than the schema
UnitRowArrays ==
    {RowArray(PageRow(n, c)) : n \in PageSchools, c \in 1..MaxCount}
        \cup { <<1>>, <<1, <<"G", "U">>, <<"A">>, <<"1">>, <<"W">>>> }

UnitRowLists == UNION {[1..n -> UnitRowArrays] : n \in 0..MaxRows}

UnitSchemas == { Schema, <<"count", "school_name">> }

GridOf(schema, rows) == JDict([schema |-> JList(schema), data |-> JList(rows)])

UnitGrids == {GridOf(S, R) : S \in UnitSchemas, R \in UnitRowLists}

\* values for _decompress_grid_data
UnitRaws ==
    {RawText(TRUE, Single(g)) : g \in UnitGrids}
        \cup {RawText(TRUE, Double(JBlob(b, TRUE, TRUE, g))) : b \in {"ok", "stray"}, g \in UnitGrids}
        \cup {RawText(TRUE, Double(JBlob("ok", TRUE, TRUE, JNumber))),
              RawText(TRUE, Single(JList(<<NoCountRow>>))),
              RawText(TRUE, JList(<<NoCountRow>>)),
              RawText(TRUE, Single(JDict([schema |-> JNumber, data |-> JList(<<>>)])))}
        \cup OddRaws \cup CorruptRaws

\* contents of state.json: the ones of Init, "{}", and what main can write
UnitFiles ==
    {NoFile, EmptyFile, CorruptFile, BareFile}
        \cup {ValidFile(new_decisions(rows)) : rows \in FilteredOutcomes}

\* load_state(), then save_state of what it returned, then load_state()
RoundTrip(file) ==
    LET loaded == load_state(file) IN
    IF ~loaded.ok THEN [ok |-> FALSE]
    ELSE LET written == save_state(loaded.state)
         IN  [ok |-> TRUE, loaded |-> loaded.state, file |-> written,
              reloaded |-> load_state(written)]

UnitFrame ==
    UNCHANGED <<pc, stateFile, filtered, changes, message, notify, fault, exit_status,
                steps, fileAtStart, prevOk, repeat, seen, scenario, unsent, ledger>>

CallFilter ==
    \E records \in UnitRecordLists, watchlist \in WatchLists, enabled \in BOOLEAN :
        /\ call = NoCall
        /\ call' = [fn |-> "filter",
                    arg |-> [records |-> records, watchlist |-> watchlist,
                             enabled |-> enabled]]
        /\ ret' = FilterWith(records, enabled, watchlist)
        /\ UnitFrame

CallDecode ==
    \E raw \in UnitRaws :
        /\ call = NoCall
        /\ call' = [fn |-> "decode", arg |-> raw]
        /\ ret' = decompress_grid_data(raw)
        /\ UnitFrame

CallStore ==
    \E file \in UnitFiles :
        /\ call = NoCall
        /\ call' = [fn |-> "store", arg |-> file]
        /\ ret' = RoundTrip(file)
        /\ UnitFrame

InitUnits == Init /\ stateFile = NoFile

NextUnits == CallFilter \/ CallDecode \/ CallStore

SpecUnits == InitUnits /\ [][NextUnits]_vars

\* ---------------------------------------------------------------- properties

\* this run has called `what`
Called(what) == \E i \in DOMAIN steps : steps[i] = what

\* the diff of this run is in `changes`
DiffDone == Called("diff")

\* the mapping diff_decisions was given: the decisions of the file the run found
Previous == fileAtStart.decisions

KeysOf(rows) == {make_key(rows[i]) : i \in DOMAIN rows}

\* the count of a row as the claims read it: 0 for a row without one
RowCount(d) == IF "count" \in DOMAIN d THEN d.count ELSE 0

\* the last row of `rows` with key k
LastRow(rows, k) ==
    rows[CHOOSE i \in DOMAIN rows :
            /\ make_key(rows[i]) = k
            /\ \A j \in DOMAIN rows : make_key(rows[j]) = k => j <= i]

\* row i of `filtered` has a key `Previous` lacks
IsNewRow(i) == make_key(filtered[i]) \notin DOMAIN Previous

\* row i of `filtered` has a key of `Previous` and a larger count
IsGrownRow(i) ==
    /\ ~IsNewRow(i)
    /\ RowCount(filtered[i]) > Previous[make_key(filtered[i])].count

\* the rows that trigger an event, and the j-th of them
Triggering == {i \in DOMAIN filtered : IsNewRow(i) \/ IsGrownRow(i)}
NthTriggering(j) ==
    CHOOSE i \in Triggering : Cardinality({x \in Triggering : x <= i}) = j

\* event e is the one the claim describes for row i
EventMatches(e, i) ==
    LET d == filtered[i] IN
    /\ e.school_name = d.school_name /\ e.result = d.result /\ e.date = d.date
    /\ e.count = RowCount(d)
    /\ IF IsNewRow(i)
       THEN e.is_new = TRUE /\ e.delta = RowCount(d)
       ELSE e.is_new = FALSE /\ e.delta = RowCount(d) - Previous[make_key(d)].count

\* C1 (as claimed): after a successful run, every persisted count is the
\* largest count ever observed for its key.
C1_StoredIsMaxEverSeen ==
    pc = "done" =>
        \A k \in DOMAIN stateFile.decisions :
            stateFile.decisions[k].count = seen[k].max

\* C1 (amended): after a successful run, every persisted count is the count
\* of the key's last row in that run; it is the largest count ever observed
\* for the key provided the counts observed for the key never decreased.
C1_StoredIsLastSeen ==
    pc = "done" =>
        \A k \in DOMAIN stateFile.decisions :
            /\ stateFile.decisions[k].count = RowCount(LastRow(filtered, k))
            /\ seen[k].mono => stateFile.decisions[k].count = seen[k].max

\* C1 witness: a key persisted by the run before is persisted with a larger
\* count, its counts never having decreased
C1_Witness ==
    /\ pc = "done" /\ prevOk
    /\ \E k \in DOMAIN stateFile.decisions \cap DOMAIN Previous :
        /\ seen[k].mono
        /\ stateFile.decisions[k].count > Previous[k].count

\* C2: a run that sees the rows the successful run right before it saw
\* produces no ChangeEvent and sends nothing.
C2_RepeatedRunIsQuiet ==
    (DiffDone /\ repeat) => (changes = <<>> /\ notify = "none")

\* C3: on empty state a single row with count c > 0 gives one event (new,
\* delta c) and is persisted alone; the same row again gives no event; the
\* same key with c' > c then gives one event (not new, delta c' - c).
C3_ThreeRunScenario ==
    DiffDone =>
        /\ scenario.stage = 1 =>
            /\ Len(changes) = 1
            /\ changes[1].is_new = TRUE
            /\ changes[1].delta = scenario.c
            /\ changes[1].count = scenario.c
            /\ pc = "done" =>
                /\ DOMAIN stateFile.decisions = {make_key(filtered[1])}
                /\ stateFile.decisions[make_key(filtered[1])] =
                      [school_name |-> filtered[1].school_name,
                       result |-> filtered[1].result,
                       date |-> filtered[1].date,
                       count |-> scenario.c]
        /\ scenario.stage = 2 => changes = <<>>
        /\ scenario.stage = 3 =>
            /\ Len(changes) = 1
            /\ changes[1].is_new = FALSE
            /\ changes[1].delta = RowCount(filtered[1]) - scenario.c
            /\ changes[1].delta > 0

\* C3 witness: the third run of the scenario has ended
C3_Witness == pc = "done" /\ scenario.stage = 3

\* C4: a failed send is not fatal: the run goes on to the save, and the file
\* a run leaves is the snapshot of its filtered rows whether the send failed
\* or not.
C4_NotifierFailureNotFatal ==
    /\ notify = "failed" =>
        /\ pc \in {"notified", "done"}
        /\ pc = "notified" => ENABLED Save
        /\ pc = "done" => exit_status = 0
    /\ pc = "done" =>
        /\ stateFile.kind = "valid"
        /\ DOMAIN stateFile.decisions = KeysOf(filtered)
        /\ \A k \in KeysOf(filtered) :
            stateFile.decisions[k] =
                [school_name |-> LastRow(filtered, k).school_name,
                 result |-> LastRow(filtered, k).result,
                 date |-> LastRow(filtered, k).date,
                 count |-> RowCount(LastRow(filtered, k))]

\* C4 witness: a run with changes whose send failed has saved a new state
C4_Witness ==
    /\ pc = "done" /\ notify = "failed" /\ changes # <<>>
    /\ stateFile # fileAtStart

\* C5: a run whose page load or decode fails ends with status 1 before
\* load, diff, notify and save: the file is as the run found it and nothing
\* was sent.
C5_ScrapeFailureAborts ==
    fault \in {"page_load", "decode"} =>
        /\ pc = "exit1"
        /\ exit_status = 1
        /\ stateFile = fileAtStart
        /\ notify = "none" /\ message = <<>>
        /\ ~Called("load") /\ ~Called("diff") /\ ~Called("notify") /\ ~Called("save")

\* C5 witness: a decode failure with decisions on file
C5_Witness ==
    /\ fault = "decode" /\ pc = "exit1"
    /\ DOMAIN stateFile.decisions # {}

\* C6: a run that loads an unparseable state file stops there: it computes
\* no diff against empty state, sends nothing and leaves the file as it is.
C6_StoreFailureAborts ==
    (Called("load") /\ fileAtStart.kind = "corrupt") =>
        /\ pc = "crashed"
        /\ exit_status # 0
        /\ ~Called("diff") /\ changes = <<>>
        /\ notify = "none" /\ message = <<>>
        /\ ~Called("save") /\ stateFile = fileAtStart

\* C6 witness: the run that stopped had rows to report
C6_Witness == pc = "crashed" /\ fault = "store" /\ filtered # <<>>

\* C7: no run ends through an unhandled fault, and a fatal failure ends the
\* run with a non-zero status.
C7_EveryFailureCaught ==
    /\ pc # "crashed"
    /\ fault \in {"page_load", "decode", "store"} => exit_status > 0

\* C8: after a successful run the persisted keys are exactly the keys of
\* the run's filtered rows, and a row whose key the prior state lacks (also
\* one that was persisted earlier and dropped) is reported as new.
C8_SaveIsFullOverwrite ==
    /\ pc = "done" => DOMAIN stateFile.decisions = KeysOf(filtered)
    /\ DiffDone =>
        \A i \in DOMAIN filtered :
            IsNewRow(i) =>
                \E j \in DOMAIN changes :
                    /\ changes[j].is_new = TRUE
                    /\ changes[j].school_name = filtered[i].school_name
                    /\ changes[j].result = filtered[i].result
                    /\ changes[j].date = filtered[i].date
                    /\ changes[j].count = RowCount(filtered[i])

\* C8 witness: a key persisted earlier, dropped by the run before, is back
\* and reported as new, while a key of the prior state is dropped
C8_Witness ==
    /\ pc = "done" /\ prevOk
    /\ \E k \in KeysOf(filtered) :
        /\ k \in DOMAIN seen
        /\ k \notin DOMAIN Previous
        /\ \E j \in DOMAIN changes : changes[j].is_new
    /\ \E k \in DOMAIN Previous : k \notin DOMAIN stateFile.decisions

\* C9: the events are, in the order of the rows, one new event (delta =
\* count) per row whose key the previous mapping lacks and one update event
\* (delta = count - prev_count) per row whose count grew; no other row has
\* an event.
C9_DiffEvents ==
    DiffDone =>
        /\ Len(changes) = Cardinality(Triggering)
        /\ \A j \in DOMAIN changes : EventMatches(changes[j], NthTriggering(j))

\* C9 witness: a new row and then a grown row gave two events
C9_Witness ==
    /\ DiffDone /\ Len(filtered) = 2 /\ Len(changes) = 2
    /\ changes[1].is_new /\ ~changes[2].is_new

\* C10: every ChangeEvent has delta > 0.
C10_DeltaPositive ==
    DiffDone => \A j \in DOMAIN changes : changes[j].delta > 0

\* the steps of a whole run, with or without a send
FullRun(withSend) ==
    <<"page_load", "decode", "filter", "load", "diff">>
        \o (IF withSend THEN <<"notify">> ELSE <<>>) \o <<"save">>

IsPrefix(a, b) == Len(a) <= Len(b) /\ \A i \in DOMAIN a : a[i] = b[i]

\* C13: a run calls page load, decode, filter, state load, diff, the send
\* (if and only if the diff is not empty) and the save in this order, each
\* at most once; a run that is not aborted ends with exactly the whole
\* sequence.
C13_StepOrder ==
    /\ IsPrefix(steps, FullRun(changes # <<>>))
    /\ Called("notify") <=> notify # "none"
    /\ pc \in {"notified", "done"} => (Called("notify") <=> changes # <<>>)
    /\ pc = "done" => steps = FullRun(changes # <<>>)
    /\ exit_status = 0 => pc = "done"

\* C13 witness: a run with a send has ended
C13_Witness == pc = "done" /\ steps = FullRun(TRUE) /\ notify = "failed"

\* C15: a run that sees the rows of the run right before it, whose send
\* failed, produces no ChangeEvent and sends nothing.
C15_FailedSendNotRetried ==
    (DiffDone /\ unsent) => (changes = <<>> /\ notify = "none")

\* the keys that several rows of `filtered` carry
SharedKeys ==
    {k \in KeysOf(filtered) :
        Cardinality({i \in DOMAIN filtered : make_key(filtered[i]) = k}) >= 2}

\* C16: rows that share a key are each compared with the previous mapping
\* alone: if it lacks the key every such row has its own new event, else
\* every such row with a larger count has its own event with delta = count
\* - prev_count.
C16_SharedKeyRowsIndependent ==
    DiffDone =>
        \A k \in SharedKeys :
            LET hasKey(x) == make_key(x) = k
                rows == SelectSeq(filtered, hasKey)
                events == SelectSeq(changes, hasKey)
                grown(d) == RowCount(d) > Previous[k].count
                larger == SelectSeq(rows, grown)
            IN  IF k \notin DOMAIN Previous
                THEN /\ Len(events) = Len(rows)
                     /\ \A j \in DOMAIN events :
                            /\ events[j].is_new = TRUE
                            /\ events[j].count = RowCount(rows[j])
                            /\ events[j].delta = RowCount(rows[j])
                ELSE /\ Len(events) = Len(larger)
                     /\ \A j \in DOMAIN events :
                            /\ events[j].is_new = FALSE
                            /\ events[j].count = RowCount(larger[j])
                            /\ events[j].delta = RowCount(larger[j]) - Previous[k].count

\* C16 witness: two rows of a key on file, both larger, gave two events
C16_Witness ==
    /\ DiffDone /\ Len(filtered) = 2 /\ Len(changes) = 2
    /\ make_key(filtered[1]) = make_key(filtered[2])
    /\ make_key(filtered[1]) \in DOMAIN Previous
    /\ RowCount(filtered[1]) < RowCount(filtered[2])

\* C18: for a key with one row in every saved run since its first and
\* counts that never decreased, the deltas of all its events add up to the
\* count on file.
C18_DeltasSumToCount ==
    pc = "done" =>
        \A k \in DOMAIN stateFile.decisions :
            ledger[k].clean => ledger[k].sum = stateFile.decisions[k].count

\* C18 witness: a key whose count grew from one saved run to the next, the
\* send of the growth having failed
C18_Witness ==
    /\ pc = "done" /\ prevOk /\ notify = "failed"
    /\ \E k \in DOMAIN stateFile.decisions \cap DOMAIN Previous :
        /\ ledger[k].clean
        /\ Previous[k].count > 0
        /\ stateFile.decisions[k].count > Previous[k].count

SameLetter(x, y) ==
    x = y \/ \E i \in DOMAIN UpperCase : {x, y} = {UpperCase[i], LowerCase[i]}

EqualIgnoringCase(a, b) ==
    Len(a) = Len(b) /\ \A i \in DOMAIN a : SameLetter(a[i], b[i])

OnWatchList(name) == \E s \in SCHOOLS : EqualIgnoringCase(name, s)

\* C19: every entry on file, every ChangeEvent and every line handed to
\* the Notifier names a school that equals a watch-list entry up to case.
C19_OnlyWatchedSchools ==
    /\ \A k \in DOMAIN stateFile.decisions :
            OnWatchList(stateFile.decisions[k].school_name)
    /\ \A j \in DOMAIN changes : OnWatchList(changes[j].school_name)
    /\ \A j \in DOMAIN message : OnWatchList(message[j][1])

\* C19 witness: the watched school in lower case is on file and was sent
C19_Witness ==
    /\ pc = "done" /\ notify = "sent"
    /\ \E k \in DOMAIN stateFile.decisions :
            stateFile.decisions[k].school_name = LowerCaseSchool
    /\ \E j \in DOMAIN message : message[j][1] = LowerCaseSchool

\* C20: for a key that several rows of the run carry, the count on file is
\* the count of the last of them.
C20_LastRowWins ==
    pc = "done" =>
        \A k \in SharedKeys :
            LET mine == {i \in DOMAIN filtered : make_key(filtered[i]) = k}
                last == CHOOSE i \in mine : \A j \in mine : j <= i
            IN  stateFile.decisions[k].count = RowCount(filtered[last])

\* C20 witness: the last of two rows has the smaller count, and the count
\* on file is neither the larger one nor the sum
C20_Witness ==
    /\ pc = "done" /\ Len(filtered) = 2
    /\ make_key(filtered[1]) = make_key(filtered[2])
    /\ RowCount(filtered[1]) > RowCount(filtered[2])
    /\ RowCount(filtered[2]) > 0
    /\ stateFile.decisions[make_key(filtered[1])].count = RowCount(filtered[2])

\* the rows of seq at the indices idx, in order
NthOf(idx, j) == CHOOSE i \in idx : Cardinality({x \in idx : x <= i}) = j

Pick(seq, idx) == [j \in 1..Cardinality(idx) |-> seq[NthOf(idx, j)]]

WellFormed(raw) == raw.t = "text" /\ raw.jok
Envelope(raw) == IsDict(raw.v) /\ MarkedCompressed(raw.v)
Inner(raw) == Get(raw.v.d, "data", JDict(EmptyDict))
Wrapped(raw) == Envelope(raw) /\ IsDict(Inner(raw)) /\ MarkedCompressed(Inner(raw))
HasBlob(raw) ==
    Wrapped(raw) /\ "data" \in DOMAIN Inner(raw).d /\ Inner(raw).d["data"].t = "blob"
SoundBlob(b) == b.b64 # "badpad" /\ b.zok /\ b.jok
Resolves(raw) == Envelope(raw) /\ (Wrapped(raw) => HasBlob(raw) /\ SoundBlob(Inner(raw).d["data"]))
Resolved(raw) == IF Wrapped(raw) THEN Inner(raw).d["data"].v ELSE Inner(raw)

\* a schema/data mapping of sequences
GridShaped(p) ==
    /\ IsDict(p) /\ "schema" \in DOMAIN p.d /\ "data" \in DOMAIN p.d
    /\ IsList(p.d["schema"]) /\ IsList(p.d["data"])

\* well-formed JSON of no known shape
UnknownShape(raw) ==
    /\ WellFormed(raw) /\ ~IsList(raw.v)
    /\ \/ ~Envelope(raw)
       \/ Resolves(raw) /\ ~GridShaped(Resolved(raw)) /\ ~IsList(Resolved(raw))

\* bad base64 padding, bytes that are no zlib stream, or text that is not
\* JSON, inside a double envelope
CorruptInside(raw) ==
    WellFormed(raw) /\ HasBlob(raw) /\ ~SoundBlob(Inner(raw).d["data"])

\* C12: well-formed JSON of no known shape decodes to the empty sequence
\* without raising; corruption inside a compressed envelope raises.
C12_UnknownShapeEmptyCorruptRaises ==
    call.fn = "decode" =>
        /\ UnknownShape(call.arg) => ret = Return(<<>>)
        /\ CorruptInside(call.arg) => ~ret.ok

Shorter(a, b) == IF Len(a) < Len(b) THEN Len(a) ELSE Len(b)

\* C17: for a payload {schema: S, data: R} in a single or in a double
\* envelope the decoder returns one record per row of R, in row order, the
\* i-th mapping every column of S that the i-th row has a value for to that
\* value.
C17_OneRecordPerRow ==
    (/\ call.fn = "decode" /\ WellFormed(call.arg) /\ Resolves(call.arg)
     /\ GridShaped(Resolved(call.arg))) =>
        LET S == Resolved(call.arg).d["schema"].items
            R == Resolved(call.arg).d["data"].items
        IN  /\ ret.ok
            /\ Len(ret.val) = Len(R)
            /\ \A i \in DOMAIN R :
                /\ DOMAIN ret.val[i] = {S[j] : j \in 1..Shorter(S, R[i])}
                /\ \A j \in 1..Shorter(S, R[i]) : ret.val[i][S[j]] = R[i][j]

\* C17 witness: two different rows came out of a double envelope in order
C17_Witness ==
    /\ call.fn = "decode" /\ WellFormed(call.arg) /\ Wrapped(call.arg) /\ ret.ok
    /\ Len(ret.val) = 2
    /\ \A i \in 1..2 : DOMAIN ret.val[i] = {Schema[j] : j \in DOMAIN Schema}
    /\ ret.val[1].school_name = <<"G", "U">> /\ ret.val[1].count = 2
    /\ ret.val[2].school_name = <<"H", "U">> /\ ret.val[2].count = 1

====
